---- MODULE Spec2Model ----
(***************************************************************************)
(* A model of lib/python/qmk/keymap.py: the keymap.c template resolver     *)
(* (template), the keymap renderer (generate), render-and-persist (write)  *)
(* and the build orchestrator (compile_firmware).                          *)
(*                                                                         *)
(* Text is a sequence of atoms (TLA+ strings); concatenation is \o.  A     *)
(* path is text whose "/" atoms separate its components.  A Python dict is *)
(* a function whose DOMAIN is the set of keys present.  A Python call that *)
(* may raise yields an outcome record [raised, exc, value].                *)
(***************************************************************************)
EXTENDS Integers, Sequences, FiniteSets, TLC

VARIABLES fs, pc, args, result, ret, exc, hist, calls, gen

vars == <<fs, pc, args, result, ret, exc, hist, calls, gen>>

(***************************************************************************)
(* Bounds of the model.                                                    *)
(***************************************************************************)
MaxLayers == 2
MaxKeys == 2
MaxCalls == 2
MaxExit == 2

(***************************************************************************)
(* Program constants.                                                      *)
(***************************************************************************)
NotRun == -2
PreconditionFailed == -1
ExceptionCaught == -3
TemplateArity == 1

MARK == "__KEYMAP_GOES_HERE__"

DEFAULT_KEYMAP_C ==
    << "#include QMK_KEYBOARD_H\n\n/* THIS FILE WAS GENERATED! ... */\n\n",
       "const uint16_t PROGMEM keymaps[][MATRIX_ROWS][MATRIX_COLS] = {\n",
       MARK, "\n};\n" >>

None == <<"<None>">>

(***************************************************************************)
(* Input domains.                                                          *)
(***************************************************************************)
KeyCodes == {"KC_A", "KC_B"}
Layouts == {<<"LAYOUT">>, <<"LAYOUT_ortho">>}
Keyboards == {<<"kb">>, <<"kb", "/", "rev">>, <<"nokb">>}
Keymaps == {<<"km">>, <<"alt">>}

SeqsUpTo(S, n) == UNION {[1..k -> S] : k \in 0..n}

LayerLists == SeqsUpTo(SeqsUpTo(KeyCodes, MaxKeys), MaxLayers)

(* Layer lists handed to compile_firmware: none, one layer, two layers.    *)
CompileLayers ==
    { <<>>, << <<"KC_A">> >>, << <<"KC_A", "KC_B">>, <<"KC_B">> >> }

(***************************************************************************)
(* Python built-ins used by the module.                                    *)
(***************************************************************************)
Ok(v) == [raised |-> FALSE, exc |-> "", value |-> v]
Raise(kind) == [raised |-> TRUE, exc |-> kind, value |-> None]

(* '%s' % n for a small non-negative integer.                              *)
Str(n) ==
    IF n < 10
    THEN <<"0", "1", "2", "3", "4", "5", "6", "7", "8", "9">>[n + 1]
    ELSE "many"

RECURSIVE Join(_, _)
(* sep.join(parts): parts is a sequence of texts.                          *)
Join(sep, parts) ==
    IF parts = <<>> THEN <<>>
    ELSE IF Len(parts) = 1 THEN parts[1]
    ELSE parts[1] \o sep \o Join(sep, Tail(parts))

RECURSIVE Replace(_, _, _)
(* text.replace(old, new), old being one atom.                             *)
Replace(text, old, new) ==
    IF text = <<>> THEN <<>>
    ELSE (IF Head(text) = old THEN new ELSE <<Head(text)>>)
         \o Replace(Tail(text), old, new)

DictSet(d, k, v) ==
    [x \in DOMAIN d \cup {k} |-> IF x = k THEN v ELSE d[x]]

(***************************************************************************)
(* The filesystem: the directories and the regular files that exist, each  *)
(* named by its sequence of components from the working directory.         *)
(***************************************************************************)
Components(path) == SelectSeq(path, LAMBDA a : a # "/")

RECURSIVE Walk(_, _, _)
(* Path resolution as the OS does it: every component walked must exist;   *)
(* ".." steps to the parent of a directory that exists.                    *)
Walk(f, cur, comps) ==
    IF comps = <<>> THEN TRUE
    ELSE LET c == Head(comps)
             nxt == IF c = ".."
                    THEN (IF cur = <<>> THEN <<>> ELSE SubSeq(cur, 1, Len(cur) - 1))
                    ELSE Append(cur, c)
         IN  /\ (nxt = <<>> \/ nxt \in f.dirs \/ nxt \in DOMAIN f.files)
             /\ (Tail(comps) # <<>> => (nxt = <<>> \/ nxt \in f.dirs))
             /\ Walk(f, nxt, Tail(comps))

Exists(f, path) == Walk(f, <<>>, Components(path))

Prefixes(comps) == {SubSeq(comps, 1, k) : k \in 1..Len(comps)}

MakeDirs(f, path) ==
    [f EXCEPT !.dirs = @ \cup Prefixes(Components(path))]

WriteFile(f, path, text) ==
    LET c == Components(path)
    IN  [f EXCEPT !.files = [x \in DOMAIN @ \cup {c} |-> IF x = c THEN text ELSE @[x]]]

ReadFile(f, path) == f.files[Components(path)]

(***************************************************************************)
(* template(keyboard), lines 26-42.                                        *)
(***************************************************************************)
template(f, keyboard) ==
    LET template_name ==
            <<"keyboards", "/">> \o keyboard \o <<"/", "templates", "/", "keymap.c">>
    IN  IF Exists(f, template_name)
        THEN (IF Components(template_name) \in DOMAIN f.files
              THEN Ok(ReadFile(f, template_name))
              ELSE Raise("IsADirectoryError"))
        ELSE Ok(DEFAULT_KEYMAP_C)

(* A call of template with the positional arguments pargs: Python binds    *)
(* them to the one parameter of the def on line 26, or raises TypeError.   *)
CallTemplate(f, pargs) ==
    IF Len(pargs) = TemplateArity THEN template(f, pargs[1]) ELSE Raise("TypeError")

(***************************************************************************)
(* generate(keyboard, layout, layers), lines 45-68.                        *)
(***************************************************************************)
LayerLine(layer_num, layout, layer) ==
    LET layer_keys == Join(<<", ">>, [k \in 1..Len(layer) |-> <<layer[k]>>])
    IN  <<"\t[", Str(layer_num), "] = ">> \o layout \o <<"(">> \o layer_keys \o <<")">>

RECURSIVE LayerTxt(_, _, _)
(* layer_txt after the first n iterations of the loop of lines 59-63.      *)
LayerTxt(layout, layers, n) ==
    IF n = 0 THEN <<>>
    ELSE LET layer_num == n - 1
             before == LayerTxt(layout, layers, n - 1)
             commaed == IF layer_num # 0
                        THEN [before EXCEPT ![Len(before)] = @ \o <<",">>]
                        ELSE before
         IN  Append(commaed, LayerLine(layer_num, layout, layers[n]))

generate(f, keyboard, layout, layers) ==
    LET layer_txt == LayerTxt(layout, layers, Len(layers))
        keymap == Join(<<"\n">>, layer_txt)
        keymap_c == CallTemplate(f, <<keyboard, keymap>>)
    IN  IF keymap_c.raised THEN keymap_c
        ELSE Ok(Replace(keymap_c.value, MARK, keymap))

(***************************************************************************)
(* qmk.path.keymap(keyboard): the base directory of a keyboard's keymaps.  *)
(***************************************************************************)
qmk_path_keymap(keyboard) ==
    <<"qmk_firmware", "/", "keyboards", "/">> \o keyboard \o <<"/", "keymaps">>

KeymapDir(keyboard, keymap) == qmk_path_keymap(keyboard) \o <<"/">> \o keymap

KeymapFile(keyboard, keymap) == KeymapDir(keyboard, keymap) \o <<"/", "keymap.c">>

(***************************************************************************)
(* write(keyboard, keymap, layout, layers), lines 71-100: the outcome and  *)
(* the filesystem it leaves.                                               *)
(***************************************************************************)
write(f, keyboard, keymap, layout, layers) ==
    LET keymap_c == generate(f, keyboard, layout, layers)
        keymap_dir == KeymapDir(keyboard, keymap)
        keymap_file == KeymapFile(keyboard, keymap)
        made == IF ~Exists(f, keymap_dir) THEN MakeDirs(f, keymap_dir) ELSE f
    IN  IF keymap_c.raised
        THEN [out |-> keymap_c, fs |-> f]
        ELSE [out |-> Ok(keymap_file), fs |-> WriteFile(made, keymap_file, keymap_c.value)]

(***************************************************************************)
(* The collaborators compile_firmware calls and this file does not define: *)
(* the outcomes each call can have.                                        *)
(***************************************************************************)
Procs == {1, 2}

ExcKinds == {"NameError", "OSError"}

Failures == {Raise(k) : k \in ExcKinds}

JobId(p) == <<"job-", Str(p)>>

(* get_current_job(): a job with an id, or a failure.                      *)
get_current_job(p) == {Ok(JobId(p))} \cup Failures

(* checkout_qmk(): the tree is prepared, or a failure.                     *)
checkout_qmk == {Ok(None)} \cup Failures

(* The layer block of the renderer: the layer lines joined with ",\n".     *)
RenderBlock(layout, layers) ==
    Join(<<",", "\n">>,
         [n \in 1..Len(layers) |->
            <<"\t[", Str(n - 1), "] = ">> \o layout \o <<"(">>
            \o Join(<<", ">>, [k \in 1..Len(layers[n]) |-> <<layers[n][k]>>])
            \o <<")">>])

(* The renderer: the resolved template with the marker replaced.           *)
Render(f, keyboard, layout, layers) ==
    LET t == template(f, keyboard)
    IN  IF t.raised THEN t
        ELSE Ok(Replace(t.value, MARK, RenderBlock(layout, layers)))

(* write_keymap(keyboard, keymap, layers) renders before it persists: the  *)
(* text it is about to write, or a failure.  The layout is no argument of  *)
(* the call, so the layout of the text is the collaborator's own.          *)
write_keymap_render(f, keyboard, keymap, layers) ==
    {Render(f, keyboard, l, layers) : l \in Layouts} \cup Failures

BuildCodes == 0..MaxExit

BuildOutputs == {<<>>, <<"make: output">>}

FirmwareFilename(a) ==
    Replace(a.keyboard, "/", <<"_">>) \o <<"_">> \o a.keymap \o <<".hex">>

(* store_firmware_binary(result): the build runs the command of the record *)
(* and writes return code and output into it, then on success the artifact *)
(* and its filename; a failure can strike before the build or after the    *)
(* build's outcome has been written.  [res: the record it leaves, out].    *)
store_firmware_binary(res, a) ==
    LET ran(rc, o) == DictSet(DictSet(res, "returncode", rc), "output", o)
        stored(r) == DictSet(DictSet(r, "firmware", <<"<binary>">>),
                             "firmware_filename", FirmwareFilename(a))
    IN  {[res |-> res, out |-> x, built |-> FALSE, rc |-> NotRun, output |-> <<>>]
            : x \in Failures}
        \cup
        {[res |-> IF rc = 0 THEN stored(ran(rc, o)) ELSE ran(rc, o),
          out |-> Ok(None), built |-> TRUE, rc |-> rc, output |-> o]
            : rc \in BuildCodes, o \in BuildOutputs}
        \cup
        {[res |-> ran(rc, o), out |-> x, built |-> TRUE, rc |-> rc, output |-> o]
            : rc \in BuildCodes, o \in BuildOutputs, x \in Failures}
        \cup
        {[res |-> DictSet(res, "output", o), out |-> x, built |-> TRUE,
          rc |-> NotRun, output |-> o]
            : o \in BuildOutputs, x \in Failures}

(* traceback.format_exc() for the exception being handled.                 *)
format_exc(kind) == <<"Traceback (most recent call last):\n  ...\n", kind, "\n">>

(***************************************************************************)
(* Trees the program can find on disk.                                     *)
(***************************************************************************)
Path(comps) == Join(<<"/">>, [k \in 1..Len(comps) |-> <<comps[k]>>])

FirmwareTree ==
    [dirs |-> Prefixes(<<"qmk_firmware", "keyboards", "kb", "rev">>), files |-> <<>>]

(* Keymap directories a tree may already hold: keyboard-scoped and          *)
(* parent-scoped.                                                          *)
OwnKeymap == Path(<<"qmk_firmware", "keyboards", "kb", "keymaps", "km">>)

ParentKeymap == Path(<<"qmk_firmware", "keyboards", "keymaps", "km">>)

OverridePath == Path(<<"keyboards", "kb", "templates", "keymap.c">>)

OverrideTemplates ==
    { <<"// custom\n", MARK, "\n// end\n">>,
      <<"// no marker\n">>,
      <<MARK, "\n#if 0\n", MARK, "\n#endif\n">> }

WithOverride(f, text) ==
    WriteFile(MakeDirs(f, Path(<<"keyboards", "kb", "templates">>)), OverridePath, text)

CompileTrees ==
    LET plain == {FirmwareTree, MakeDirs(FirmwareTree, OwnKeymap)}
        trees == plain \cup {MakeDirs(f, ParentKeymap) : f \in plain}
    IN  trees \cup {WithOverride(FirmwareTree, <<"// custom\n", MARK, "\n// end\n">>)}

GenTrees == {FirmwareTree} \cup {WithOverride(FirmwareTree, t) : t \in OverrideTemplates}

(***************************************************************************)
(* State.                                                                  *)
(***************************************************************************)
NoArgs == [keyboard |-> <<>>, keymap |-> <<>>, layout |-> <<>>, layers |-> <<>>]

EmptyDict == <<>>

NoHist(f) ==
    [step |-> "none", built |-> FALSE, rc |-> NotRun, output |-> <<>>,
     wrote |-> FALSE, text |-> <<>>, fs0 |-> f]

NoGen == [fn |-> "none", args |-> NoArgs, res |-> Ok(None)]

InitProcs(f) ==
    /\ fs = f
    /\ pc = [p \in Procs |-> "idle"]
    /\ args = [p \in Procs |-> NoArgs]
    /\ result = [p \in Procs |-> EmptyDict]
    /\ ret = [p \in Procs |-> EmptyDict]
    /\ exc = [p \in Procs |-> ""]
    /\ hist = [p \in Procs |-> NoHist(f)]
    /\ calls = 0
    /\ gen = NoGen

Init == \E f \in CompileTrees : InitProcs(f)

(***************************************************************************)
(* compile_firmware(keyboard, keymap, layout, layers), lines 103-147.      *)
(***************************************************************************)
(* Lines 106-115. *)
NewResult(keyboard, keymap, layout) ==
    [keyboard |-> keyboard,
     layout |-> layout,
     keymap |-> keymap,
     command |-> << <<"make">>, <<"COLOR=false">>, Join(<<":">>, <<keyboard, keymap>>) >>,
     returncode |-> NotRun,
     output |-> <<>>,
     firmware |-> None,
     firmware_filename |-> <<>>]

Begin(p, keyboard, keymap, layout, layers) ==
    /\ args' = [args EXCEPT ![p] = [keyboard |-> keyboard, keymap |-> keymap,
                                    layout |-> layout, layers |-> layers]]
    /\ result' = [result EXCEPT ![p] = NewResult(keyboard, keymap, layout)]
    /\ ret' = [ret EXCEPT ![p] = EmptyDict]
    /\ exc' = [exc EXCEPT ![p] = ""]
    /\ hist' = [hist EXCEPT ![p] = NoHist(fs)]
    /\ pc' = [pc EXCEPT ![p] = "get_job"]

Call(p, keyboard, keymap, layout, layers) ==
    /\ pc[p] \in {"idle", "done"}
    /\ calls < MaxCalls
    /\ calls' = calls + 1
    /\ Begin(p, keyboard, keymap, layout, layers)
    /\ UNCHANGED <<fs, gen>>

(* An exception leaves the try block for the handler of line 139. *)
Throw(p, step, kind) ==
    /\ exc' = [exc EXCEPT ![p] = kind]
    /\ hist' = [hist EXCEPT ![p].step = step]
    /\ pc' = [pc EXCEPT ![p] = "except"]

(* Lines 118-119. *)
GetCurrentJob(p) ==
    /\ pc[p] = "get_job"
    /\ \E job \in get_current_job(p) :
          IF job.raised
          THEN Throw(p, "get_current_job", job.exc) /\ UNCHANGED result
          ELSE /\ result' = [result EXCEPT ![p] = DictSet(@, "id", job.value)]
               /\ pc' = [pc EXCEPT ![p] = "checkout"]
               /\ UNCHANGED <<exc, hist>>
    /\ UNCHANGED <<fs, args, ret, calls, gen>>

(* Line 120. *)
CheckoutQmk(p) ==
    /\ pc[p] = "checkout"
    /\ \E out \in checkout_qmk :
          IF out.raised
          THEN Throw(p, "checkout_qmk", out.exc)
          ELSE pc' = [pc EXCEPT ![p] = "check_keyboard"] /\ UNCHANGED <<exc, hist>>
    /\ UNCHANGED <<fs, args, result, ret, calls, gen>>

UnknownKeyboard ==
    [returncode |-> PreconditionFailed, command |-> <<>>,
     output |-> <<"Unknown keyboard!">>, firmware |-> None]

(* Mutant: the missing keyboard is logged and the run goes on. *)
CheckKeyboard_LogOnly(p) ==
    /\ pc[p] = "check_keyboard"
    /\ pc' = [pc EXCEPT ![p] = "check_keymap_1"]
    /\ UNCHANGED <<fs, args, result, ret, exc, hist, calls, gen>>

(* Lines 123-125. *)
CheckKeyboard(p) ==
    /\ pc[p] = "check_keyboard"
    /\ IF ~Exists(fs, <<"qmk_firmware", "/", "keyboards", "/">> \o args[p].keyboard)
       THEN /\ ret' = [ret EXCEPT ![p] = UnknownKeyboard]
            /\ pc' = [pc EXCEPT ![p] = "done"]
       ELSE /\ pc' = [pc EXCEPT ![p] = "check_keymap_1"]
            /\ UNCHANGED ret
    /\ UNCHANGED <<fs, args, result, exc, hist, calls, gen>>

(* The tuple of lines 127-130. *)
Candidates(keyboard, keymap) ==
    << <<"qmk_firmware", "/", "keyboards", "/">> \o keyboard \o <<"/", "keymaps", "/">> \o keymap,
       <<"qmk_firmware", "/", "keyboards", "/">> \o keyboard
            \o <<"/", "..", "/", "keymaps", "/">> \o keymap >>

Collision(pathname) ==
    [returncode |-> PreconditionFailed, command |-> <<>>,
     output |-> <<"Keymap name collision! ">> \o pathname \o <<" already exists!">>,
     firmware |-> None]

(* Mutant: only the keyboard-scoped candidate is looked at. *)
CheckKeymap_FirstOnly(p) ==
    /\ pc[p] = "check_keymap_1"
    /\ LET pathname == Candidates(args[p].keyboard, args[p].keymap)[1]
       IN  IF Exists(fs, pathname)
           THEN /\ ret' = [ret EXCEPT ![p] = Collision(pathname)]
                /\ pc' = [pc EXCEPT ![p] = "done"]
           ELSE /\ pc' = [pc EXCEPT ![p] = "write_keymap"]
                /\ UNCHANGED ret
    /\ UNCHANGED <<fs, args, result, exc, hist, calls, gen>>

(* Mutant: the check also honours a claim another invocation holds on the  *)
(* keymap once it is past its own checks, whatever is on disk.             *)
CheckKeymap_Claimed(p) ==
    /\ \E n \in 1..2 :
        /\ pc[p] = <<"check_keymap_1", "check_keymap_2">>[n]
        /\ LET pathname == Candidates(args[p].keyboard, args[p].keymap)[n]
               claimed == \E q \in Procs \ {p} :
                             /\ pc[q] \in {"write_keymap", "wk_makedirs", "wk_open"}
                             /\ args[q].keyboard = args[p].keyboard
                             /\ args[q].keymap = args[p].keymap
           IN  IF Exists(fs, pathname) \/ claimed
               THEN /\ ret' = [ret EXCEPT ![p] = Collision(pathname)]
                    /\ pc' = [pc EXCEPT ![p] = "done"]
               ELSE /\ pc' = [pc EXCEPT ![p] =
                                IF n = 1 THEN "check_keymap_2" ELSE "write_keymap"]
                    /\ UNCHANGED ret
    /\ UNCHANGED <<fs, args, result, exc, hist, calls, gen>>

(* One iteration of the loop of lines 127-133. *)
CheckKeymap(p) ==
    /\ \E n \in 1..2 :
        /\ pc[p] = <<"check_keymap_1", "check_keymap_2">>[n]
        /\ LET pathname == Candidates(args[p].keyboard, args[p].keymap)[n]
           IN  IF Exists(fs, pathname)
               THEN /\ ret' = [ret EXCEPT ![p] = Collision(pathname)]
                    /\ pc' = [pc EXCEPT ![p] = "done"]
               ELSE /\ pc' = [pc EXCEPT ![p] =
                                IF n = 1 THEN "check_keymap_2" ELSE "write_keymap"]
                    /\ UNCHANGED ret
    /\ UNCHANGED <<fs, args, result, exc, hist, calls, gen>>

(* Line 136: write_keymap renders, then looks whether the directory is     *)
(* there.                                                                  *)
WriteKeymapRender(p) ==
    /\ pc[p] = "write_keymap"
    /\ \E out \in write_keymap_render(fs, result[p]["keyboard"], result[p]["keymap"],
                                      args[p].layers) :
          IF out.raised
          THEN Throw(p, "write_keymap", out.exc)
          ELSE /\ hist' = [hist EXCEPT ![p].text = out.value]
               /\ pc' = [pc EXCEPT ![p] =
                            IF Exists(fs, KeymapDir(result[p]["keyboard"], result[p]["keymap"]))
                            THEN "wk_open" ELSE "wk_makedirs"]
               /\ UNCHANGED exc
    /\ UNCHANGED <<fs, args, result, ret, calls, gen>>

(* Line 136: write_keymap creates the directory it found absent.           *)
WriteKeymapMakedirs(p) ==
    /\ pc[p] = "wk_makedirs"
    /\ LET dir == KeymapDir(result[p]["keyboard"], result[p]["keymap"])
       IN  IF Exists(fs, dir)
           THEN Throw(p, "write_keymap", "FileExistsError") /\ UNCHANGED fs
           ELSE /\ fs' = MakeDirs(fs, dir)
                /\ pc' = [pc EXCEPT ![p] = "wk_open"]
                /\ UNCHANGED <<exc, hist>>
    /\ UNCHANGED <<args, result, ret, calls, gen>>

(* Line 136: write_keymap writes keymap.c.                                 *)
WriteKeymapOpen(p) ==
    /\ pc[p] = "wk_open"
    /\ fs' = WriteFile(fs, KeymapFile(result[p]["keyboard"], result[p]["keymap"]),
                       hist[p].text)
    /\ hist' = [hist EXCEPT ![p].wrote = TRUE]
    /\ pc' = [pc EXCEPT ![p] = "store"]
    /\ UNCHANGED <<args, result, ret, exc, calls, gen>>

(* Line 137. *)
StoreFirmwareBinary(p) ==
    /\ pc[p] = "store"
    /\ \E o \in store_firmware_binary(result[p], args[p]) :
          /\ result' = [result EXCEPT ![p] = o.res]
          /\ IF o.out.raised
             THEN /\ exc' = [exc EXCEPT ![p] = o.out.exc]
                  /\ pc' = [pc EXCEPT ![p] = "except"]
                  /\ hist' = [hist EXCEPT ![p].step = "store_firmware_binary",
                                          ![p].built = o.built, ![p].rc = o.rc,
                                          ![p].output = o.output]
             ELSE /\ pc' = [pc EXCEPT ![p] = "return"]
                  /\ hist' = [hist EXCEPT ![p].built = o.built, ![p].rc = o.rc,
                                          ![p].output = o.output]
                  /\ UNCHANGED exc
    /\ UNCHANGED <<fs, args, ret, calls, gen>>

(* Mutant: the clause catches OSError alone. *)
Caught_OSErrorOnly(kind) == kind = "OSError"

(* The exception classes the clause of line 139 catches. *)
Caught(kind) == TRUE

(* Mutant: the trace always replaces the output. *)
Handled_Overwrite(res, kind) ==
    LET r1 == DictSet(res, "returncode", ExceptionCaught)
        r2 == DictSet(r1, "exception", <<kind>>)
        r3 == DictSet(r2, "stacktrace", format_exc(kind))
    IN  DictSet(r3, "output", r3["stacktrace"])

(* Mutant: the handler records the exception and leaves the return code. *)
Handled_KeepCode(res, kind) ==
    LET r2 == DictSet(res, "exception", <<kind>>)
        r3 == DictSet(r2, "stacktrace", format_exc(kind))
    IN  IF r3["output"] = <<>> THEN DictSet(r3, "output", r3["stacktrace"]) ELSE r3

(* Lines 139-145. *)
Handled(res, kind) ==
    LET r1 == DictSet(res, "returncode", ExceptionCaught)
        r2 == DictSet(r1, "exception", <<kind>>)
        r3 == DictSet(r2, "stacktrace", format_exc(kind))
    IN  IF r3["output"] = <<>> THEN DictSet(r3, "output", r3["stacktrace"]) ELSE r3

Except(p) ==
    /\ pc[p] = "except"
    /\ IF Caught(exc[p])
       THEN /\ result' = [result EXCEPT ![p] = Handled(@, exc[p])]
            /\ pc' = [pc EXCEPT ![p] = "return"]
       ELSE /\ pc' = [pc EXCEPT ![p] = "propagated"]
            /\ UNCHANGED result
    /\ UNCHANGED <<fs, args, ret, exc, hist, calls, gen>>

(* Mutant: the handler's body runs on every exit, as a finally clause. *)
Return_AsFinally(p) ==
    /\ pc[p] = "return"
    /\ ret' = [ret EXCEPT ![p] =
                  LET r == DictSet(result[p], "returncode", ExceptionCaught)
                  IN  IF r["output"] = <<>>
                      THEN DictSet(r, "output", format_exc(exc[p])) ELSE r]
    /\ pc' = [pc EXCEPT ![p] = "done"]
    /\ UNCHANGED <<fs, args, result, exc, hist, calls, gen>>

(* Line 147. *)
Return(p) ==
    /\ pc[p] = "return"
    /\ ret' = [ret EXCEPT ![p] = result[p]]
    /\ pc' = [pc EXCEPT ![p] = "done"]
    /\ UNCHANGED <<fs, args, result, exc, hist, calls, gen>>

Step(p) ==
    \/ GetCurrentJob(p)
    \/ CheckoutQmk(p)
    \/ CheckKeyboard(p)
    \/ CheckKeymap(p)
    \/ WriteKeymapRender(p)
    \/ WriteKeymapMakedirs(p)
    \/ WriteKeymapOpen(p)
    \/ StoreFirmwareBinary(p)
    \/ Except(p)
    \/ Return(p)

Invoke(p) ==
    \E keyboard \in Keyboards, keymap \in Keymaps, layout \in Layouts,
       layers \in CompileLayers :
        Call(p, keyboard, keymap, layout, layers)

(* One caller: invocations follow one another over the same tree. *)
Next == Invoke(1) \/ Step(1)

Spec == Init /\ [][Next]_vars

(***************************************************************************)
(* Two jobs run compile_firmware at once for the same keyboard and keymap  *)
(* over one tree; each has just built its result record.                   *)
(***************************************************************************)
InitRace ==
    \E keyboard \in Keyboards, keymap \in {<<"km">>}, layers \in CompileLayers,
       layout \in [Procs -> Layouts] :
        /\ fs = FirmwareTree
        /\ pc = [p \in Procs |-> "get_job"]
        /\ args = [p \in Procs |-> [keyboard |-> keyboard, keymap |-> keymap,
                                    layout |-> layout[p], layers |-> layers]]
        /\ result = [p \in Procs |-> NewResult(keyboard, keymap, layout[p])]
        /\ ret = [p \in Procs |-> EmptyDict]
        /\ exc = [p \in Procs |-> ""]
        /\ hist = [p \in Procs |-> NoHist(FirmwareTree)]
        /\ calls = 0
        /\ gen = NoGen

NextRace == \E p \in Procs : Step(p)

SpecRace == InitRace /\ [][NextRace]_vars

(***************************************************************************)
(* The functions of the module called on their own.                        *)
(***************************************************************************)
InitGen == \E f \in GenTrees : InitProcs(f)

GenTemplate(keyboard) ==
    /\ gen.fn = "none"
    /\ gen' = [fn |-> "template", args |-> [NoArgs EXCEPT !.keyboard = keyboard],
               res |-> template(fs, keyboard)]
    /\ UNCHANGED <<fs, pc, args, result, ret, exc, hist, calls>>

GenGenerate(keyboard, layout, layers) ==
    /\ gen.fn = "none"
    /\ gen' = [fn |-> "generate",
               args |-> [NoArgs EXCEPT !.keyboard = keyboard, !.layout = layout,
                                       !.layers = layers],
               res |-> generate(fs, keyboard, layout, layers)]
    /\ UNCHANGED <<fs, pc, args, result, ret, exc, hist, calls>>

GenWrite(keyboard, keymap, layout, layers) ==
    LET w == write(fs, keyboard, keymap, layout, layers)
    IN  /\ gen.fn = "none"
        /\ gen' = [fn |-> "write",
                   args |-> [keyboard |-> keyboard, keymap |-> keymap,
                             layout |-> layout, layers |-> layers],
                   res |-> w.out]
        /\ fs' = w.fs
        /\ UNCHANGED <<pc, args, result, ret, exc, hist, calls>>

NextGen ==
    \/ \E keyboard \in Keyboards : GenTemplate(keyboard)
    \/ \E keyboard \in Keyboards, layout \in Layouts, layers \in LayerLists :
          GenGenerate(keyboard, layout, layers)
    \/ \E keyboard \in Keyboards, keymap \in Keymaps, layout \in Layouts,
          layers \in LayerLists :
          GenWrite(keyboard, keymap, layout, layers)

SpecGen == InitGen /\ [][NextGen]_vars

(***************************************************************************)
(* Vocabulary of the properties.                                           *)
(***************************************************************************)
Returned(p) == pc[p] = "done"

(* No collaborator failed during the invocation. *)
NoFailure(p) == hist[p].step = "none"

KeyboardDir(p) == <<"qmk_firmware", "/", "keyboards", "/">> \o args[p].keyboard

KeyboardKnown(p) == Exists(hist[p].fs0, KeyboardDir(p))

Taken(p) ==
    {n \in 1..2 : Exists(hist[p].fs0, Candidates(args[p].keyboard, args[p].keymap)[n])}

FirstTaken(p) == CHOOSE n \in Taken(p) : \A m \in Taken(p) : n <= m

Has(d, k) == k \in DOMAIN d

(* The invocation is under way. *)
InCall(p) == pc[p] \notin {"idle", "done"}

(* The record as constructed. *)
StartsPending(p) == pc[p] = "get_job" => result[p]["returncode"] = -2

(* The record returned is in a terminal state of the lifecycle. *)
Terminal(p) ==
    Returned(p) =>
        /\ ret[p]["returncode"] # -2
        /\ \/ ret[p]["returncode"] = -1 /\ NoFailure(p) /\ ~hist[p].built
           \/ ret[p]["returncode"] = -3 /\ ~NoFailure(p)
           \/ ret[p]["returncode"] = hist[p].rc /\ NoFailure(p) /\ hist[p].built

(* The layer block as the renderer's contract words it. *)
ClaimedLine(i, layout, layer) ==
    <<"\t[", Str(i), "] = ">> \o layout \o <<"(">>
    \o Join(<<", ">>, [k \in 1..Len(layer) |-> <<layer[k]>>]) \o <<")">>

ClaimedBlock(layout, layers) ==
    Join(<<"\n">>,
         [n \in 1..Len(layers) |->
            ClaimedLine(n - 1, layout, layers[n])
            \o (IF n < Len(layers) THEN <<",">> ELSE <<>>)])

(***************************************************************************)
(* C1: compile_firmware never propagates an exception: whatever a          *)
(* collaborator does, the invocation goes on until it returns, and what it *)
(* returns is a result record.                                             *)
(***************************************************************************)
C1_NeverPropagates ==
    \A p \in Procs :
        /\ pc[p] # "propagated"
        /\ (pc[p] \notin {"idle", "done"} => ENABLED Step(p))
        /\ (Returned(p) => Has(ret[p], "returncode") /\ Has(ret[p], "output"))

C1_Witness ==
    /\ Returned(1)
    /\ hist[1].step = "checkout_qmk"
    /\ exc[1] = "NameError"
    /\ Has(ret[1], "returncode")

(***************************************************************************)
(* C2: when step 1 has gone through and the keyboard directory does not    *)
(* exist, the record returned is return code -1, empty command, output     *)
(* "Unknown keyboard!", firmware unset; nothing was rendered or written    *)
(* and the build was not invoked.                                          *)
(***************************************************************************)
C2_UnknownKeyboard ==
    \A p \in Procs :
        (Returned(p) /\ NoFailure(p) /\ ~KeyboardKnown(p)) =>
            /\ ret[p]["returncode"] = -1
            /\ ret[p]["command"] = <<>>
            /\ ret[p]["output"] = <<"Unknown keyboard!">>
            /\ ret[p]["firmware"] = None
            /\ fs = hist[p].fs0
            /\ hist[p].text = <<>>
            /\ ~hist[p].wrote
            /\ ~hist[p].built

C2_Witness ==
    /\ Returned(1)
    /\ NoFailure(1)
    /\ args[1].keyboard = <<"nokb">>
    /\ ~KeyboardKnown(1)
    /\ ret[1]["output"] = <<"Unknown keyboard!">>

(***************************************************************************)
(* C3: when step 1 has gone through, the keyboard directory exists and a   *)
(* keymap directory exists at a candidate path, the record returned is     *)
(* return code -1 with the message naming the first existing candidate,    *)
(* and the filesystem is as it was: nothing created, nothing written.      *)
(***************************************************************************)
C3_Collision ==
    \A p \in Procs :
        (Returned(p) /\ NoFailure(p) /\ KeyboardKnown(p) /\ Taken(p) # {}) =>
            LET pathname == Candidates(args[p].keyboard, args[p].keymap)[FirstTaken(p)]
            IN  /\ ret[p]["returncode"] = -1
                /\ ret[p]["output"] =
                       <<"Keymap name collision! ">> \o pathname \o <<" already exists!">>
                /\ fs = hist[p].fs0
                /\ ~hist[p].wrote
                /\ ~hist[p].built

(* Only the parent-scoped directory exists: the second candidate is named. *)
C3_Witness ==
    /\ Returned(1)
    /\ NoFailure(1)
    /\ KeyboardKnown(1)
    /\ Taken(1) = {2}
    /\ ret[1]["returncode"] = -1
    /\ fs = hist[1].fs0

(***************************************************************************)
(* C4: when a step raises, the record returned has return code -3, a       *)
(* non-empty exception label and the captured stack trace; its output is   *)
(* the trace if the output was empty when the exception was caught, and    *)
(* the earlier output otherwise.                                           *)
(***************************************************************************)
C4_ExceptionCaptured ==
    \A p \in Procs :
        (Returned(p) /\ ~NoFailure(p)) =>
            /\ ret[p]["returncode"] = -3
            /\ Has(ret[p], "exception") /\ ret[p]["exception"] = <<exc[p]>>
            /\ exc[p] # ""
            /\ Has(ret[p], "stacktrace") /\ ret[p]["stacktrace"] = format_exc(exc[p])
            /\ ret[p]["stacktrace"] # <<>>
            /\ (hist[p].output = <<>> => ret[p]["output"] = ret[p]["stacktrace"])
            /\ (hist[p].output # <<>> => ret[p]["output"] = hist[p].output)

(* The build wrote output, then the step raised: the output is kept. *)
C4_Witness ==
    /\ Returned(1)
    /\ hist[1].step = "store_firmware_binary"
    /\ hist[1].output # <<>>
    /\ ret[1]["returncode"] = -3
    /\ ret[1]["output"] = hist[1].output

(***************************************************************************)
(* C5: on a successful run the command returned is                         *)
(* ["make", "COLOR=false", "<keyboard>:<keymap>"] and keymap.c under       *)
(* <keymaps-base>/<keymap> holds the text rendered from the keyboard, the  *)
(* layout and the layers of the call.                                      *)
(***************************************************************************)
C5_SuccessfulRun ==
    \A p \in Procs :
        (Returned(p) /\ NoFailure(p) /\ KeyboardKnown(p) /\ Taken(p) = {}) =>
            LET a == args[p]
                file == Components(KeymapFile(a.keyboard, a.keymap))
            IN  /\ ret[p]["command"] =
                       << <<"make">>, <<"COLOR=false">>, a.keyboard \o <<":">> \o a.keymap >>
                /\ file \in DOMAIN fs.files
                /\ fs.files[file] =
                       Render(hist[p].fs0, a.keyboard, a.layout, a.layers).value

(***************************************************************************)
(* C6: when both checks pass and the build runs and returns a non-zero     *)
(* exit status without raising, the record returned has that return code   *)
(* and the build's output, and is not the -3 outcome.                      *)
(***************************************************************************)
C6_BuildFailure ==
    \A p \in Procs :
        (Returned(p) /\ NoFailure(p) /\ hist[p].built /\ hist[p].rc # 0) =>
            /\ ret[p]["returncode"] = hist[p].rc
            /\ ret[p]["output"] = hist[p].output
            /\ ret[p]["returncode"] # -3
            /\ ~Has(ret[p], "exception")
            /\ ~Has(ret[p], "stacktrace")

C6_Witness ==
    /\ Returned(1)
    /\ NoFailure(1)
    /\ hist[1].built
    /\ hist[1].rc = 2
    /\ ret[1]["returncode"] = 2
    /\ ret[1]["output"] = <<"make: output">>

(***************************************************************************)
(* C7: the record starts with return code -2; a record returned has -1,    *)
(* -3 or the build's return code, never -2; and a return code once set is  *)
(* not changed again before the return.                                    *)
(***************************************************************************)
C7_Lifecycle ==
    /\ [](\A p \in Procs : StartsPending(p) /\ Terminal(p))
    /\ [][\A p \in Procs :
            (InCall(p) /\ pc'[p] # "get_job" /\ result[p]["returncode"] # -2) =>
                result'[p]["returncode"] = result[p]["returncode"]]_vars

(* C7 as amended: as C7, but a build return code already written is        *)
(* replaced by -3 when the build step raises after writing it; -3 itself   *)
(* is never replaced.                                                      *)
C7_LifecycleAmended ==
    /\ [](\A p \in Procs : StartsPending(p) /\ Terminal(p))
    /\ [][\A p \in Procs :
            (InCall(p) /\ pc'[p] # "get_job" /\ result[p]["returncode"] # -2) =>
                \/ result'[p]["returncode"] = result[p]["returncode"]
                \/ /\ result[p]["returncode"] = hist[p].rc
                   /\ hist[p].step = "store_firmware_binary"
                   /\ result'[p]["returncode"] = -3]_vars

(* The build returned 0, the step then raised, and -3 is what is returned. *)
C7_Witness ==
    /\ Returned(1)
    /\ hist[1].step = "store_firmware_binary"
    /\ hist[1].built /\ hist[1].rc = 0
    /\ ret[1]["returncode"] = -3

(***************************************************************************)
(* C8: generate(keyboard, layout, layers) returns the resolved template    *)
(* with the marker replaced by the block of n lines, line i being tab,     *)
(* "[i] = ", layout, "(", the tokens joined by ", ", ")", every line but   *)
(* the last ending with a comma; for n = 0 the block is empty.             *)
(***************************************************************************)
C8_Generate ==
    gen.fn = "generate" =>
        /\ ~gen.res.raised
        /\ gen.res.value =
               Replace(template(fs, gen.args.keyboard).value, MARK,
                       ClaimedBlock(gen.args.layout, gen.args.layers))

(***************************************************************************)
(* C9: the collision check is not atomic with the creation of the          *)
(* directory.  The outcome -1 is decided by what exists when the check     *)
(* looks, and an invocation past its checks writes keymap.c whatever the   *)
(* other has created meanwhile; so two invocations for one keyboard and    *)
(* keymap can both pass the checks, both write the same keymap.c, and      *)
(* neither return -1.                                                      *)
(***************************************************************************)
C9_CheckNotAtomic ==
    \A p \in Procs :
        Returned(p) =>
            /\ (ret[p]["returncode"] = -1 /\ KeyboardKnown(p)) =>
                    \E n \in 1..2 :
                        LET pathname == Candidates(args[p].keyboard, args[p].keymap)[n]
                        IN  /\ Exists(fs, pathname)
                            /\ ret[p]["output"] = <<"Keymap name collision! ">>
                                                    \o pathname \o <<" already exists!">>
            /\ hist[p].wrote => ret[p]["returncode"] # -1

C9_Witness ==
    /\ \A p \in Procs : Returned(p) /\ hist[p].wrote /\ ret[p]["returncode"] # -1
    /\ args[1].keyboard = args[2].keyboard
    /\ args[1].keymap = args[2].keymap
    /\ Components(KeymapFile(args[1].keyboard, args[1].keymap)) \in DOMAIN fs.files

(***************************************************************************)
(* C10: every record returned carries the keyboard, the keymap and the     *)
(* layout of the call, and the job identifier once step 1 obtained it.     *)
(***************************************************************************)
C10_UniformShape ==
    \A p \in Procs :
        Returned(p) =>
            /\ Has(ret[p], "keyboard") /\ ret[p]["keyboard"] = args[p].keyboard
            /\ Has(ret[p], "keymap") /\ ret[p]["keymap"] = args[p].keymap
            /\ Has(ret[p], "layout") /\ ret[p]["layout"] = args[p].layout
            /\ (hist[p].step # "get_current_job" =>
                    Has(ret[p], "id") /\ ret[p]["id"] = JobId(p))

====
